---- MODULE Spec2Model ----
(***************************************************************************)
(* The InteractiveDiamond component of Value-Diamond: four slider          *)
(* positions held by React state hooks, the geometry and health score      *)
(* derived from them on every render, the two button handlers ("Ideal      *)
(* Form", "Stress Test") and the four slider onChange handlers.            *)
(*                                                                         *)
(* JavaScript numbers.  Every number the component computes is a multiple  *)
(* of 1/4 of small magnitude, which an IEEE double represents exactly, so  *)
(* a number x is modelled by the integer x * Unit (fixed point, quarters). *)
(* The four slider positions themselves are kept as plain integers, and    *)
(* Num converts them where the source mixes them into arithmetic.          *)
(***************************************************************************)
EXTENDS Integers, Sequences, FiniteSets, TLC

VARIABLES valuePosition, directionPosition, exchangePosition, operatePosition,
          lastEvent, rendered

vars == <<valuePosition, directionPosition, exchangePosition, operatePosition,
          lastEvent, rendered>>

positions == <<valuePosition, directionPosition, exchangePosition, operatePosition>>

(***************************************************************************)
(* Number model                                                            *)
(***************************************************************************)
Unit == 4

Num(n) == n * Unit

\* Mutant of Half: integer division, as `/` would be on an int type.
HalfTruncated(x) == ((x \div Unit) \div 2) * Unit

\* JavaScript `x / 2` on a double: exact (no truncation).  In quarters the
\* operand is always even where the source divides.
Half(x) == x \div 2

\* Mutant of Abs: the Math.abs call left out.
AbsMissing(n) == n

\* Math.abs on an integer slider position.
Abs(n) == IF n < 0 THEN -n ELSE n

\* Math.max(a, b)
Max(a, b) == IF a >= b THEN a ELSE b

RECURSIVE Pow2(_)
Pow2(n) == IF n = 0 THEN 1 ELSE 2 * Pow2(n - 1)

(***************************************************************************)
(* Slider input: <input type="range" min="-50" max="50"> delivers          *)
(* e.target.value, a decimal string, which the handler parses with         *)
(* parseInt(.., 10).  A string is modelled as a sequence of characters.    *)
(***************************************************************************)
SliderMin == -50
SliderMax == 50

Digits == <<"0", "1", "2", "3", "4", "5", "6", "7", "8", "9">>

DigitValue(c) == CHOOSE d \in 0..9 : Digits[d + 1] = c

IsDigit(c) == \E d \in 0..9 : Digits[d + 1] = c

RECURSIVE NatToString(_)
NatToString(n) ==
  IF n < 10 THEN <<Digits[n + 1]>>
  ELSE NatToString(n \div 10) \o <<Digits[(n % 10) + 1]>>

\* The value string of the range input for the integer position n.
RangeValue(n) == IF n < 0 THEN <<"-">> \o NatToString(-n) ELSE NatToString(n)

\* The leading run of characters of s that are digits below the radix.
RECURSIVE DigitPrefix(_, _)
DigitPrefix(s, radix) ==
  IF s = <<>> \/ ~IsDigit(Head(s)) THEN <<>>
  ELSE IF DigitValue(Head(s)) >= radix THEN <<>>
  ELSE <<Head(s)>> \o DigitPrefix(Tail(s), radix)

RECURSIVE DigitsToNat(_, _, _)
DigitsToNat(s, radix, acc) ==
  IF s = <<>> THEN acc
  ELSE DigitsToNat(Tail(s), radix, acc * radix + DigitValue(Head(s)))

NaN == "NaN"

\* parseInt(s, radix): optional sign, then the longest digit prefix; NaN when
\* there is none.
ParseInt(s, radix) ==
  LET neg  == s # <<>> /\ Head(s) = "-"
      rest == IF s # <<>> /\ Head(s) \in {"-", "+"} THEN Tail(s) ELSE s
      ds   == DigitPrefix(rest, radix)
  IN IF ds = <<>> THEN NaN
     ELSE IF neg THEN -DigitsToNat(ds, radix, 0) ELSE DigitsToNat(ds, radix, 0)

\* The positions the model drives each slider to: both ends of the range, both
\* sides of each effect threshold, the centre, the smallest odd offset and 40.
SliderSample == {SliderMin, -31, -30, 0, 1, 30, 31, 40, SliderMax}

SliderStrings == {RangeValue(n) : n \in SliderSample}

(***************************************************************************)
(* Math.random(): a double in [0, 1) on a dyadic grid.  A draw is modelled *)
(* by its numerator k over 2^RandomBits.                                   *)
(***************************************************************************)
RandomBits == 7

RandomGrid == Pow2(RandomBits)

RandomDraws == 0..(RandomGrid - 1)

\* Mutant of RandomPosition: the offset of 50 left out.
RandomPositionNoOffset(k) == (k * 101) \div RandomGrid

\* Mutant of RandomPosition: Math.floor(Math.random() * 100 - 50), the
\* handler as README.md documents it.
RandomPositionDocumented(k) == ((k * 100) \div RandomGrid) - 50

\* Math.floor(Math.random() * 101) - 50 for the draw k / RandomGrid.
RandomPosition(k) == ((k * 101) \div RandomGrid) - 50

\* The draws the Stress Test action enumerates: the least, the middle and the
\* greatest draw of the grid.
RandomSample == {0, RandomGrid \div 2, RandomGrid - 1}

(***************************************************************************)
(* Render: geometry                                                        *)
(***************************************************************************)
TopPointOf(v) == [x |-> Num(400) + Num(v) * 2, y |-> Num(120)]

\* Mutant of RightPointOf: the right vertex laid out like the top one (a
\* doubled horizontal shift on a fixed y).
RightPointSymmetric(e) == [x |-> Num(580) + Num(e) * 2, y |-> Num(300)]

RightPointOf(e) == [x |-> Num(580) + Num(e), y |-> Num(300) + Half(Num(e))]

BottomPointOf(o) == [x |-> Num(400) + Num(o) * 2, y |-> Num(480)]

LeftPointOf(d) == [x |-> Num(220) + Num(d), y |-> Num(300) + Half(Num(d))]

topPoint == TopPointOf(valuePosition)

rightPoint == RightPointOf(exchangePosition)

bottomPoint == BottomPointOf(operatePosition)

leftPoint == LeftPointOf(directionPosition)

\* The path data of an SVG <path>: a move-to command and quadratic segments,
\* each with its control point and its end point, in the order written.
MoveTo(p) == [cmd |-> "M", to |-> p]

QuadTo(c, p) == [cmd |-> "Q", ctrl |-> c, to |-> p]

\* Mutant of DiamondPathOf: the closing segment back to the top left out.
DiamondPathOpen(top, right, bottom, left) ==
  << MoveTo(top),
     QuadTo([x |-> top.x + Num(15), y |-> Half(top.y + right.y)], right),
     QuadTo([x |-> Half(right.x + bottom.x), y |-> right.y + Num(50)], bottom),
     QuadTo([x |-> bottom.x - Num(30), y |-> Half(bottom.y + left.y)], left) >>

DiamondPathOf(top, right, bottom, left) ==
  << MoveTo(top),
     QuadTo([x |-> top.x + Num(15), y |-> Half(top.y + right.y)], right),
     QuadTo([x |-> Half(right.x + bottom.x), y |-> right.y + Num(50)], bottom),
     QuadTo([x |-> bottom.x - Num(30), y |-> Half(bottom.y + left.y)], left),
     QuadTo([x |-> Half(left.x + top.x), y |-> left.y - Num(50)], top) >>

diamondPath == DiamondPathOf(topPoint, rightPoint, bottomPoint, leftPoint)

Point(px, py) == [x |-> Num(px), y |-> Num(py)]

\* Mutant of idealDiamondPath: the reference path computed from the state.
idealDiamondPathFromState == diamondPath

idealDiamondPath ==
  << MoveTo(Point(400, 120)),
     QuadTo(Point(415, 210), Point(580, 300)),
     QuadTo(Point(490, 350), Point(400, 480)),
     QuadTo(Point(310, 350), Point(220, 300)),
     QuadTo(Point(385, 210), Point(400, 120)) >>

(***************************************************************************)
(* Render: health score                                                    *)
(***************************************************************************)
\* Mutant of HealthOf: the sum of deviations is not halved.
HealthOfNotHalved(v, d, e, o) ==
  Max(Num(0), Num(100) - Num(Abs(v) + Abs(d) + Abs(e) + Abs(o)))

\* Mutant of HealthOf: the Math.max(0, ..) clamp left out.
HealthOfUnclamped(v, d, e, o) ==
  Num(100) - Half(Num(Abs(v) + Abs(d) + Abs(e) + Abs(o)))

\* Mutant of HealthOf: the sum averaged over the four fields, not halved.
HealthOfAveraged(v, d, e, o) ==
  Max(Num(0), Num(100) - Half(Half(Num(Abs(v) + Abs(d) + Abs(e) + Abs(o)))))

\* Mutant of HealthOf: the VALUE position counted twice, the OPERATE position
\* not at all.
HealthOfValueTwice(v, d, e, o) ==
  Max(Num(0), Num(100) - Half(Num(Abs(v) + Abs(d) + Abs(e) + Abs(v))))

HealthOf(v, d, e, o) ==
  LET balanceScore == Num(100) - Half(Num(Abs(v) + Abs(d) + Abs(e) + Abs(o)))
  IN Max(Num(0), balanceScore)

calculateHealth ==
  HealthOf(valuePosition, directionPosition, exchangePosition, operatePosition)

\* The five health descriptions.
HealthExcellent ==
  "Excellent structural integrity! The architecture is aligned and positioned for growth."

HealthGood ==
  "Good integrity. Minor adjustments could improve commercial effectiveness."

HealthModerate ==
  "Moderate structural weaknesses. Organization experiencing tension in key areas."

HealthSignificant ==
  "Significant structural issues. Organization likely experiencing dysfunction."

HealthCritical ==
  "Critical structural failure. Organization at risk of collapse."

\* Mutant of HealthDescriptionOf: the tier bounds taken exclusively.
HealthDescriptionExclusive(health) ==
  IF health > Num(80) THEN HealthExcellent
  ELSE IF health > Num(60) THEN HealthGood
  ELSE IF health > Num(40) THEN HealthModerate
  ELSE IF health > Num(20) THEN HealthSignificant
  ELSE HealthCritical

HealthDescriptionOf(health) ==
  IF health >= Num(80) THEN HealthExcellent
  ELSE IF health >= Num(60) THEN HealthGood
  ELSE IF health >= Num(40) THEN HealthModerate
  ELSE IF health >= Num(20) THEN HealthSignificant
  ELSE HealthCritical

getHealthDescription == HealthDescriptionOf(calculateHealth)

\* Number.prototype.toFixed(0): the decimal string of the integer nearest to
\* x, the larger one when two are equally near (79.5 gives "80").
ToFixed0(x) ==
  IF x < 0 THEN <<"-">> \o NatToString((-x + Unit \div 2) \div Unit)
  ELSE NatToString((x + Unit \div 2) \div Unit)

\* The number shown in "Structural Integrity: N%".
structuralIntegrity == ToFixed0(calculateHealth)

(***************************************************************************)
(* Render: effect descriptions                                             *)
(***************************************************************************)
\* Mutant of ValueEffectOf: the thresholds taken inclusively.
ValueEffectInclusive(position) ==
  IF position <= -30 THEN
    "Heavy Wall Street focus. Investors happy but customers may feel neglected."
  ELSE IF position >= 30 THEN
    "Strong customer value focus, but Wall Street may not understand strategy."
  ELSE
    "Balanced value proposition between investor and customer needs."

ValueEffectOf(position) ==
  IF position < -30 THEN
    "Heavy Wall Street focus. Investors happy but customers may feel neglected."
  ELSE IF position > 30 THEN
    "Strong customer value focus, but Wall Street may not understand strategy."
  ELSE
    "Balanced value proposition between investor and customer needs."

DirectionEffectOf(position) ==
  IF position < -30 THEN
    "Strategy too investor-focused. Employee engagement suffering."
  ELSE IF position > 30 THEN
    "Employee-driven strategy may lack market alignment."
  ELSE
    "Strategic alignment balances investor expectations and employee capabilities."

ExchangeEffectOf(position) ==
  IF position < -30 THEN
    "Customer focus without market context. May miss emerging trends."
  ELSE IF position > 30 THEN
    "Market-driven but not addressing specific customer needs."
  ELSE
    "Value exchange optimized between customer needs and market conditions."

OperateEffectOf(position) ==
  IF position < -30 THEN
    "Operating model too employee-centric, disconnected from market realities."
  ELSE IF position > 30 THEN
    "Market-driven operations without employee engagement."
  ELSE
    "Operating model aligns employee capabilities with market dynamics."

getValueEffect == ValueEffectOf(valuePosition)

\* Mutant of getDirectionEffect: the position of another slider read.
getDirectionEffectOfValue == DirectionEffectOf(valuePosition)

getDirectionEffect == DirectionEffectOf(directionPosition)

getExchangeEffect == ExchangeEffectOf(exchangePosition)

getOperateEffect == OperateEffectOf(operatePosition)

(***************************************************************************)
(* data/balancePoints.ts: the exported table of balance point records.     *)
(***************************************************************************)
valuePoint ==
  [key |-> "value",
   label |-> "VALUE",
   stakeholders |-> "Wall Street ↔ Customers",
   description |->
     "Balance between investor expectations and customer needs.",
   effects |->
     [low |->
        "Heavy Wall Street focus. Investors happy but customers may feel neglected.",
      high |->
        "Strong customer value focus, but Wall Street may not understand strategy.",
      balanced |->
        "Balanced value proposition between investor and customer needs."]]

directionPoint ==
  [key |-> "direction",
   label |-> "DIRECTION",
   stakeholders |-> "Wall Street ↔ Employees",
   description |->
     "Alignment of strategic direction between investors and employees.",
   effects |->
     [low |->
        "Strategy too investor-focused. Employee engagement suffering.",
      high |->
        "Employee-driven strategy may lack market alignment.",
      balanced |->
        "Strategic alignment balances investor expectations and employee capabilities."]]

\* Mutant of exchangePoint: the low and high effect texts exchanged.
exchangePointSwapped ==
  [key |-> "exchange",
   label |-> "EXCHANGE",
   stakeholders |-> "Customers ↔ Market",
   description |->
     "Balance between customer focus and market trends.",
   effects |->
     [low |->
        "Market-driven but not addressing specific customer needs.",
      high |->
        "Customer focus without market context. May miss emerging trends.",
      balanced |->
        "Value exchange optimized between customer needs and market conditions."]]

exchangePoint ==
  [key |-> "exchange",
   label |-> "EXCHANGE",
   stakeholders |-> "Customers ↔ Market",
   description |->
     "Balance between customer focus and market trends.",
   effects |->
     [low |->
        "Customer focus without market context. May miss emerging trends.",
      high |->
        "Market-driven but not addressing specific customer needs.",
      balanced |->
        "Value exchange optimized between customer needs and market conditions."]]

operatePoint ==
  [key |-> "operate",
   label |-> "OPERATE",
   stakeholders |-> "Employees ↔ Market",
   description |->
     "How operational capabilities align employees with market dynamics.",
   effects |->
     [low |->
        "Operating model too employee-centric, disconnected from market realities.",
      high |->
        "Market-driven operations without employee engagement.",
      balanced |->
        "Operating model aligns employee capabilities with market dynamics."]]

\* Mutant of balancePoints: the third record repeated in place of the fourth.
balancePointsRepeated == <<valuePoint, directionPoint, exchangePoint, exchangePoint>>

balancePoints == <<valuePoint, directionPoint, exchangePoint, operatePoint>>

(***************************************************************************)
(* Render: what the component function returns for the hook values p (in   *)
(* the order value, direction, exchange, operate).                         *)
(***************************************************************************)
Render(p) ==
  LET top    == TopPointOf(p[1])
      right  == RightPointOf(p[3])
      bottom == BottomPointOf(p[4])
      left   == LeftPointOf(p[2])
      health == HealthOf(p[1], p[2], p[3], p[4])
  IN [topPoint |-> top, rightPoint |-> right,
      bottomPoint |-> bottom, leftPoint |-> left,
      diamondPath |-> DiamondPathOf(top, right, bottom, left),
      idealDiamondPath |-> idealDiamondPath,
      health |-> health,
      structuralIntegrity |-> ToFixed0(health),
      healthDescription |-> HealthDescriptionOf(health),
      valueEffect |-> ValueEffectOf(p[1]),
      directionEffect |-> DirectionEffectOf(p[2]),
      exchangeEffect |-> ExchangeEffectOf(p[3]),
      operateEffect |-> OperateEffectOf(p[4])]

\* What is on screen: the output of the last run of the component function,
\* which ran with the hook values `rendered`.
screen == Render(rendered)

(***************************************************************************)
(* State and handlers                                                      *)
(***************************************************************************)
\* Mutant of Rerender: the component function runs with the hook values of
\* before the handler's setter calls.
RerenderStale == rendered' = positions

\* A handler's setter calls schedule one run of the component function with
\* the new hook values, which completes before the next event is handled.
Rerender == rendered' = positions'

\* Mutant of Init: the VALUE hook created with useState(50).
InitValueAtMax ==
  /\ valuePosition = SliderMax
  /\ directionPosition = 0
  /\ exchangePosition = 0
  /\ operatePosition = 0
  /\ lastEvent = "mount"
  /\ rendered = <<SliderMax, 0, 0, 0>>

Init ==
  /\ valuePosition = 0
  /\ directionPosition = 0
  /\ exchangePosition = 0
  /\ operatePosition = 0
  /\ lastEvent = "mount"
  /\ rendered = <<0, 0, 0, 0>>

\* The VALUE slider's onChange handler for the event value s.
ValueChangeWith(s) ==
  /\ valuePosition' = ParseInt(s, 10)
  /\ UNCHANGED <<directionPosition, exchangePosition, operatePosition>>
  /\ lastEvent' = "change"
  /\ Rerender

ValueChange == \E s \in SliderStrings : ValueChangeWith(s)

\* Mutant of DirectionChangeWith: the handler calls the VALUE slider's setter.
DirectionChangeMiswired(s) ==
  /\ valuePosition' = ParseInt(s, 10)
  /\ UNCHANGED <<directionPosition, exchangePosition, operatePosition>>
  /\ lastEvent' = "change"
  /\ Rerender

\* The DIRECTION slider's onChange handler for the event value s.
DirectionChangeWith(s) ==
  /\ directionPosition' = ParseInt(s, 10)
  /\ UNCHANGED <<valuePosition, exchangePosition, operatePosition>>
  /\ lastEvent' = "change"
  /\ Rerender

DirectionChange == \E s \in SliderStrings : DirectionChangeWith(s)

\* The EXCHANGE slider's onChange handler for the event value s.
ExchangeChangeWith(s) ==
  /\ exchangePosition' = ParseInt(s, 10)
  /\ UNCHANGED <<valuePosition, directionPosition, operatePosition>>
  /\ lastEvent' = "change"
  /\ Rerender

ExchangeChange == \E s \in SliderStrings : ExchangeChangeWith(s)

\* The OPERATE slider's onChange handler for the event value s.
OperateChangeWith(s) ==
  /\ operatePosition' = ParseInt(s, 10)
  /\ UNCHANGED <<valuePosition, directionPosition, exchangePosition>>
  /\ lastEvent' = "change"
  /\ Rerender

OperateChange == \E s \in SliderStrings : OperateChangeWith(s)

\* Mutant of IdealForm: the last setter call left out.
IdealFormPartial ==
  /\ valuePosition' = 0
  /\ directionPosition' = 0
  /\ exchangePosition' = 0
  /\ operatePosition' = operatePosition
  /\ lastEvent' = "idealForm"
  /\ Rerender

IdealForm ==
  /\ valuePosition' = 0
  /\ directionPosition' = 0
  /\ exchangePosition' = 0
  /\ operatePosition' = 0
  /\ lastEvent' = "idealForm"
  /\ Rerender

\* The Stress Test handler for the four Math.random() draws k1..k4, in the
\* order the handler makes them.
StressTestWith(k1, k2, k3, k4) ==
  /\ valuePosition' = RandomPosition(k1)
  /\ directionPosition' = RandomPosition(k2)
  /\ exchangePosition' = RandomPosition(k3)
  /\ operatePosition' = RandomPosition(k4)
  /\ lastEvent' = "stressTest"
  /\ Rerender

StressTest ==
  \E k1, k2, k3, k4 \in RandomSample : StressTestWith(k1, k2, k3, k4)

Next ==
  \/ ValueChange
  \/ DirectionChange
  \/ ExchangeChange
  \/ OperateChange
  \/ IdealForm
  \/ StressTest

Spec == Init /\ [][Next]_vars


(***************************************************************************)
(* Claims                                                                  *)
(***************************************************************************)
\* The sum of absolute deviations of a 4-tuple of positions, written out
\* without Math.abs.
Deviation(n) == IF n >= 0 THEN n ELSE 0 - n

SumAbsOf(t) == Deviation(t[1]) + Deviation(t[2]) + Deviation(t[3]) + Deviation(t[4])

SumAbs == SumAbsOf(positions)

\* C1: in every reachable state the integrity score computed by
\* calculateHealth lies in [0, 100].
C1_ScoreInRange == Num(0) <= calculateHealth /\ calculateHealth <= Num(100)

C1_Witness ==
  /\ lastEvent = "stressTest"
  /\ positions = <<SliderMax, SliderMin, SliderMax, SliderMin>>
  /\ calculateHealth = Num(0)

\* C2: for every state with fields in [-50, 50], calculateHealth is exactly
\* max(0, 100 - S/2) for S the sum of absolute values, with no rounding: an
\* odd S gives a half-integer ({-50,0,0,0} gives 75, {1,0,0,0} gives 99.5).
C2_ScoreFormula ==
  /\ 2 * calculateHealth =
       IF 2 * Num(100) - Num(SumAbs) >= 0 THEN 2 * Num(100) - Num(SumAbs) ELSE 0
  /\ positions = <<-50, 0, 0, 0>> => calculateHealth = Num(75)
  /\ positions = <<1, 0, 0, 0>> => 2 * calculateHealth = Num(199)
  /\ SumAbs % 2 = 1 => calculateHealth % Unit = Unit \div 2

C2_Witness ==
  /\ lastEvent = "change"
  /\ positions = <<1, 0, 0, 0>>
  /\ 2 * calculateHealth = Num(199)

\* C3: the integrity score is 100 if and only if all four fields are 0; any
\* state with a non-zero field scores strictly less than 100.
C3_FullScoreIffIdeal ==
  /\ calculateHealth = Num(100) <=> positions = <<0, 0, 0, 0>>
  /\ positions # <<0, 0, 0, 0>> => calculateHealth < Num(100)

C3_Witness ==
  /\ lastEvent = "change"
  /\ positions = <<0, 0, 0, 1>>
  /\ calculateHealth < Num(100)

\* C4: for any two valid states s and t, if the sum of absolute values of s
\* is at most that of t then integrity(s) >= integrity(t); states with equal
\* sums have equal scores.  s is the current state, t ranges over
\* CompareStates.
CompareValues == {SliderMin, 0, 1, 31}

CompareStates == CompareValues \X CompareValues \X CompareValues \X CompareValues

C4_ScoreMonotone ==
  \A t \in CompareStates :
    /\ SumAbs <= SumAbsOf(t) => calculateHealth >= HealthOf(t[1], t[2], t[3], t[4])
    /\ SumAbsOf(t) <= SumAbs => HealthOf(t[1], t[2], t[3], t[4]) >= calculateHealth
    /\ SumAbsOf(t) = SumAbs => HealthOf(t[1], t[2], t[3], t[4]) = calculateHealth

C4_Witness ==
  /\ lastEvent = "change"
  /\ positions = <<-31, 0, SliderMax, 1>>
  /\ \E t \in CompareStates : t # positions /\ SumAbsOf(t) = SumAbs
  /\ \E t \in CompareStates : SumAbsOf(t) < SumAbs
  /\ \E t \in CompareStates : SumAbsOf(t) > SumAbs

\* C5: the integrity score is 0 if and only if the sum of absolute values is
\* 200, i.e. every field is at -50 or +50; every other valid state scores
\* strictly above 0.
C5_ZeroScoreIffExtreme ==
  /\ calculateHealth = Num(0) <=> SumAbs = 200
  /\ SumAbs = 200 <=>
       \A i \in 1..4 : positions[i] \in {SliderMin, SliderMax}
  /\ SumAbs # 200 => calculateHealth > Num(0)

C5_Witness ==
  /\ lastEvent = "change"
  /\ positions = <<SliderMin, SliderMin, SliderMax, SliderMax>>
  /\ calculateHealth = Num(0)

\* C6: in every state reachable from the all-zero state by slider changes,
\* Ideal Form and Stress Test, each field is an integer in [-50, 50].
C6_FieldsInRange ==
  \A i \in 1..4 : positions[i] \in Int /\ positions[i] \in SliderMin..SliderMax

C6_Witness ==
  /\ lastEvent = "stressTest"
  /\ valuePosition = SliderMax
  /\ directionPosition = SliderMin
  /\ exchangePosition = 0

\* C7: from any reachable state the Ideal Form action can be taken and leads
\* to the all-zero state, where the integrity score is 100 and the health
\* description is the excellent tier.
C7_IdealFormResets ==
  /\ ENABLED IdealForm
  /\ lastEvent = "idealForm" =>
       /\ positions = <<0, 0, 0, 0>>
       /\ calculateHealth = Num(100)
       /\ getHealthDescription = HealthExcellent

C7_Witness ==
  /\ lastEvent = "idealForm"
  /\ positions = <<0, 0, 0, 0>>
  /\ calculateHealth = Num(100)
  /\ getHealthDescription = HealthExcellent

\* C8: Stress Test can set each field to every integer of [-50, 50], both
\* endpoints included, and chooses the four fields independently: from any
\* state, for every target 4-tuple there are four draws with which the
\* handler yields exactly that tuple.  The targets checked in each state are
\* the sixteen corners and, for each field, every integer of the range with
\* the other three fields at a common end of the range.
DrawsForPosition ==
  [v \in SliderMin..SliderMax |-> {k \in RandomDraws : RandomPosition(k) = v}]

Ends == {SliderMin, SliderMax}

StressTargets ==
  (Ends \X Ends \X Ends \X Ends) \cup
  UNION {{<<v, c, c, c>>, <<c, v, c, c>>, <<c, c, v, c>>, <<c, c, c, v>>} :
           <<v, c>> \in (SliderMin..SliderMax) \X Ends}

C9_VertexFormulas ==
  /\ topPoint = [x |-> Unit * (400 + 2 * valuePosition), y |-> Unit * 120]
  /\ rightPoint.x = Unit * (580 + exchangePosition)
  /\ 2 * rightPoint.y = Unit * (600 + exchangePosition)
  /\ bottomPoint = [x |-> Unit * (400 + 2 * operatePosition), y |-> Unit * 480]
  /\ leftPoint.x = Unit * (220 + directionPosition)
  /\ 2 * leftPoint.y = Unit * (600 + directionPosition)
  /\ positions = <<0, 0, 0, 0>> =>
       /\ topPoint = [x |-> Unit * 400, y |-> Unit * 120]
       /\ rightPoint = [x |-> Unit * 580, y |-> Unit * 300]
       /\ bottomPoint = [x |-> Unit * 400, y |-> Unit * 480]
       /\ leftPoint = [x |-> Unit * 220, y |-> Unit * 300]
  /\ valuePosition = 40 => topPoint = [x |-> Unit * 480, y |-> Unit * 120]

C9_Witness ==
  /\ lastEvent = "change"
  /\ valuePosition = 40
  /\ exchangePosition = 31
  /\ directionPosition = -31
  /\ topPoint = [x |-> Unit * 480, y |-> Unit * 120]
  /\ 2 * rightPoint.y = Unit * 631
  /\ 2 * leftPoint.y = Unit * 569

\* C10: in every reachable state top.y = 120 and bottom.y = 480, and
\* (right.y - 300) * 2 = right.x - 580 and (left.y - 300) * 2 = left.x - 220;
\* each vertex depends on exactly one field (top on value, right on exchange,
\* bottom on operate, left on direction): it stays as it is in every step that
\* leaves its field unchanged, and moves in every step that changes its field.
C10_Coupling ==
  /\ topPoint.y = Unit * 120
  /\ bottomPoint.y = Unit * 480
  /\ (rightPoint.y - Unit * 300) * 2 = rightPoint.x - Unit * 580
  /\ (leftPoint.y - Unit * 300) * 2 = leftPoint.x - Unit * 220

C10_OneFieldEach ==
  /\ valuePosition' = valuePosition <=> topPoint' = topPoint
  /\ exchangePosition' = exchangePosition <=> rightPoint' = rightPoint
  /\ operatePosition' = operatePosition <=> bottomPoint' = bottomPoint
  /\ directionPosition' = directionPosition <=> leftPoint' = leftPoint

C10_VertexDependence == []C10_Coupling /\ [][C10_OneFieldEach]_vars

C10_Witness ==
  /\ lastEvent = "change"
  /\ exchangePosition = SliderMax
  /\ directionPosition = SliderMin
  /\ valuePosition = 31
  /\ rightPoint = [x |-> Unit * 630, y |-> Unit * 325]
  /\ leftPoint = [x |-> Unit * 170, y |-> Unit * 275]

\* C11: the dynamic path is a closed loop that starts at top, visits right,
\* bottom, left in that order and ends at top, made of four quadratic segments
\* with control points (top.x + 15, (top.y + right.y)/2), ((right.x +
\* bottom.x)/2, right.y + 50), (bottom.x - 30, (bottom.y + left.y)/2) and
\* ((left.x + top.x)/2, left.y - 50).
C11_DiamondPath ==
  /\ Len(diamondPath) = 5
  /\ diamondPath[1] = [cmd |-> "M", to |-> topPoint]
  /\ \A i \in 2..5 : diamondPath[i].cmd = "Q"
  /\ diamondPath[2].to = rightPoint
  /\ diamondPath[3].to = bottomPoint
  /\ diamondPath[4].to = leftPoint
  /\ diamondPath[5].to = topPoint
  /\ diamondPath[2].ctrl.x = topPoint.x + Unit * 15
  /\ 2 * diamondPath[2].ctrl.y = topPoint.y + rightPoint.y
  /\ 2 * diamondPath[3].ctrl.x = rightPoint.x + bottomPoint.x
  /\ diamondPath[3].ctrl.y = rightPoint.y + Unit * 50
  /\ diamondPath[4].ctrl.x = bottomPoint.x - Unit * 30
  /\ 2 * diamondPath[4].ctrl.y = bottomPoint.y + leftPoint.y
  /\ 2 * diamondPath[5].ctrl.x = leftPoint.x + topPoint.x
  /\ diamondPath[5].ctrl.y = leftPoint.y - Unit * 50

C11_Witness ==
  /\ lastEvent = "change"
  /\ positions = <<40, -31, 31, 1>>
  /\ diamondPath[2].ctrl = [x |-> Unit * 495, y |-> 871]
  /\ diamondPath[5].to = [x |-> Unit * 480, y |-> Unit * 120]

\* C12: the constant ideal reference curve is the curve computed from the
\* all-zero state: its start point, segment end points and control points are
\* those diamondPath produces when all four fields are 0, so at the ideal form
\* the two rendered curves coincide.
C12_IdealIsPathAtZero ==
  positions = <<0, 0, 0, 0>> => idealDiamondPath = diamondPath

\* C13: the ideal reference curve is the same in every reachable state:
\* M 400,120; Q 415,210 580,300; Q 490,350 400,480; Q 310,350 220,300;
\* Q 385,210 400,120.
C13_IdealPathConstant ==
  idealDiamondPath =
    << [cmd |-> "M", to |-> [x |-> Unit * 400, y |-> Unit * 120]],
       [cmd |-> "Q", ctrl |-> [x |-> Unit * 415, y |-> Unit * 210],
                     to |-> [x |-> Unit * 580, y |-> Unit * 300]],
       [cmd |-> "Q", ctrl |-> [x |-> Unit * 490, y |-> Unit * 350],
                     to |-> [x |-> Unit * 400, y |-> Unit * 480]],
       [cmd |-> "Q", ctrl |-> [x |-> Unit * 310, y |-> Unit * 350],
                     to |-> [x |-> Unit * 220, y |-> Unit * 300]],
       [cmd |-> "Q", ctrl |-> [x |-> Unit * 385, y |-> Unit * 210],
                     to |-> [x |-> Unit * 400, y |-> Unit * 120]] >>

C13_Witness ==
  /\ lastEvent = "stressTest"
  /\ positions = <<SliderMin, SliderMax, SliderMax, 0>>
  /\ diamondPath[1].to # idealDiamondPath[1].to
  /\ idealDiamondPath[4].ctrl = [x |-> Unit * 310, y |-> Unit * 350]

\* C14: for every field and every integer v in [-50, 50] the effect band is
\* 'low' exactly when v < -30, 'high' exactly when v > 30 and 'balanced'
\* otherwise; the thresholds are strict (30 and -30 are balanced, 31 is high,
\* -31 is low) and exactly one band applies.  The band of a text is told by
\* comparing it with the field's text at -50 (low), 0 (balanced) and 50 (high).
BandsOf(lowText, balancedText, highText, text, v) ==
  /\ lowText # balancedText /\ balancedText # highText /\ lowText # highText
  /\ text = lowText <=> v < -30
  /\ text = highText <=> v > 30
  /\ text = balancedText <=> (-30 <= v /\ v <= 30)

C14_AllPositions ==
  \A v \in SliderMin..SliderMax :
    /\ BandsOf(ValueEffectOf(SliderMin), ValueEffectOf(0),
               ValueEffectOf(SliderMax), ValueEffectOf(v), v)
    /\ BandsOf(DirectionEffectOf(SliderMin), DirectionEffectOf(0),
               DirectionEffectOf(SliderMax), DirectionEffectOf(v), v)
    /\ BandsOf(ExchangeEffectOf(SliderMin), ExchangeEffectOf(0),
               ExchangeEffectOf(SliderMax), ExchangeEffectOf(v), v)
    /\ BandsOf(OperateEffectOf(SliderMin), OperateEffectOf(0),
               OperateEffectOf(SliderMax), OperateEffectOf(v), v)

C14_EffectBands ==
  /\ C14_AllPositions
  /\ BandsOf(ValueEffectOf(SliderMin), ValueEffectOf(0),
             ValueEffectOf(SliderMax), getValueEffect, valuePosition)
  /\ BandsOf(DirectionEffectOf(SliderMin), DirectionEffectOf(0),
             DirectionEffectOf(SliderMax), getDirectionEffect, directionPosition)
  /\ BandsOf(ExchangeEffectOf(SliderMin), ExchangeEffectOf(0),
             ExchangeEffectOf(SliderMax), getExchangeEffect, exchangePosition)
  /\ BandsOf(OperateEffectOf(SliderMin), OperateEffectOf(0),
             OperateEffectOf(SliderMax), getOperateEffect, operatePosition)

C14_Witness ==
  /\ lastEvent = "change"
  /\ positions = <<30, -30, 31, -31>>
  /\ getValueEffect = ValueEffectOf(0)
  /\ getDirectionEffect = DirectionEffectOf(0)
  /\ getExchangeEffect = ExchangeEffectOf(SliderMax)
  /\ getOperateEffect = OperateEffectOf(SliderMin)

\* C15: the effect text shown for a field depends only on that field's own
\* value: in every step that leaves a field unchanged its effect text is
\* unchanged, whatever happens to the other three fields.
C15_OwnFieldOnly ==
  /\ valuePosition' = valuePosition => getValueEffect' = getValueEffect
  /\ directionPosition' = directionPosition => getDirectionEffect' = getDirectionEffect
  /\ exchangePosition' = exchangePosition => getExchangeEffect' = getExchangeEffect
  /\ operatePosition' = operatePosition => getOperateEffect' = getOperateEffect

C15_EffectIndependence == [][C15_OwnFieldOnly]_vars

C15_Witness ==
  /\ lastEvent = "change"
  /\ positions = <<SliderMax, 0, SliderMin, 31>>
  /\ getDirectionEffect = DirectionEffectOf(0)
  /\ getValueEffect # ValueEffectOf(0)
  /\ getExchangeEffect # ExchangeEffectOf(0)
  /\ getOperateEffect # OperateEffectOf(0)

\* C16: for every score reachable from a valid state (half-integers such as
\* 79.5 included) getHealthDescription returns the excellent tier iff score >=
\* 80, good iff 60 <= score < 80, moderate iff 40 <= score < 60, significant
\* iff 20 <= score < 40, critical iff score < 20; lower bounds are inclusive
\* (80 excellent, 79 good, 20 significant, 19 critical) and every score maps to
\* exactly one tier.
C16_HealthTiers ==
  /\ Cardinality({HealthExcellent, HealthGood, HealthModerate,
                  HealthSignificant, HealthCritical}) = 5
  /\ getHealthDescription = HealthExcellent <=> calculateHealth >= Unit * 80
  /\ getHealthDescription = HealthGood <=>
       (Unit * 60 <= calculateHealth /\ calculateHealth < Unit * 80)
  /\ getHealthDescription = HealthModerate <=>
       (Unit * 40 <= calculateHealth /\ calculateHealth < Unit * 60)
  /\ getHealthDescription = HealthSignificant <=>
       (Unit * 20 <= calculateHealth /\ calculateHealth < Unit * 40)
  /\ getHealthDescription = HealthCritical <=> calculateHealth < Unit * 20
  /\ SumAbs = 40 => getHealthDescription = HealthExcellent
  /\ SumAbs \in {41, 42} => getHealthDescription = HealthGood
  /\ SumAbs = 160 => getHealthDescription = HealthSignificant
  /\ SumAbs \in {161, 162} => getHealthDescription = HealthCritical

C16_Witness ==
  /\ lastEvent = "change"
  /\ positions = <<40, 0, 1, 0>>
  /\ 2 * calculateHealth = Unit * 159
  /\ getHealthDescription = HealthGood

\* C17: in every reachable state the whole-number percentage N shown as
\* "Structural Integrity: N%" (the score rounded by toFixed(0)) and the health
\* description beside it agree with the interpretation guide: N >= 80 with
\* Excellent, 60..79 with Good, 40..59 with Moderate, 20..39 with Significant,
\* N < 20 with Critical.
ShownPercent == DigitsToNat(structuralIntegrity, 10, 0)

C17_DisplayAgreesWithGuide ==
  /\ ShownPercent >= 80 <=> getHealthDescription = HealthExcellent
  /\ (60 <= ShownPercent /\ ShownPercent <= 79) <=> getHealthDescription = HealthGood
  /\ (40 <= ShownPercent /\ ShownPercent <= 59) <=> getHealthDescription = HealthModerate
  /\ (20 <= ShownPercent /\ ShownPercent <= 39) <=>
       getHealthDescription = HealthSignificant
  /\ ShownPercent < 20 <=> getHealthDescription = HealthCritical

\* C18: after every state change (slider change, Ideal Form, Stress Test) the
\* rendered vertices, dynamic path, integrity score, health description and
\* four effect texts all equal the pure functions applied to the current four
\* field values: nothing on screen is stale or computed from an earlier state.
C18_ScreenIsCurrent ==
  /\ screen = Render(positions)
  /\ screen.topPoint = topPoint
  /\ screen.rightPoint = rightPoint
  /\ screen.bottomPoint = bottomPoint
  /\ screen.leftPoint = leftPoint
  /\ screen.diamondPath = diamondPath
  /\ screen.health = calculateHealth
  /\ screen.healthDescription = getHealthDescription
  /\ screen.valueEffect = getValueEffect
  /\ screen.directionEffect = getDirectionEffect
  /\ screen.exchangeEffect = getExchangeEffect
  /\ screen.operateEffect = getOperateEffect

C18_Witness ==
  /\ lastEvent = "stressTest"
  /\ positions = <<SliderMax, 0, SliderMin, 0>>
  /\ screen.topPoint = [x |-> Unit * 500, y |-> Unit * 120]
  /\ screen.rightPoint = [x |-> Unit * 530, y |-> Unit * 275]
  /\ screen.health = Unit * 50
  /\ screen.healthDescription = HealthModerate

\* C19: the data-driven lookup agrees with the component's inline effect
\* functions: for every key k of {value, direction, exchange, operate} and
\* every integer v in [-50, 50], balancePoints[k].effects[band(v)], with band
\* as in the +-30 thresholds, is the string getValueEffect / getDirectionEffect
\* / getExchangeEffect / getOperateEffect returns for v.
ClassifyBand(v) == IF v < -30 THEN "low" ELSE IF v > 30 THEN "high" ELSE "balanced"

TableEffect(key, v) ==
  LET i == CHOOSE i \in 1..Len(balancePoints) : balancePoints[i].key = key
  IN balancePoints[i].effects[ClassifyBand(v)]

C19_AllPositions ==
  \A v \in SliderMin..SliderMax :
    /\ TableEffect("value", v) = ValueEffectOf(v)
    /\ TableEffect("direction", v) = DirectionEffectOf(v)
    /\ TableEffect("exchange", v) = ExchangeEffectOf(v)
    /\ TableEffect("operate", v) = OperateEffectOf(v)

C19_TableMatchesInline ==
  /\ C19_AllPositions
  /\ TableEffect("value", valuePosition) = getValueEffect
  /\ TableEffect("direction", directionPosition) = getDirectionEffect
  /\ TableEffect("exchange", exchangePosition) = getExchangeEffect
  /\ TableEffect("operate", operatePosition) = getOperateEffect

C19_Witness ==
  /\ lastEvent = "change"
  /\ positions = <<-31, 31, SliderMin, SliderMax>>
  /\ getValueEffect = valuePoint.effects.low
  /\ getDirectionEffect = directionPoint.effects.high
  /\ getExchangeEffect = exchangePoint.effects.low
  /\ getOperateEffect = operatePoint.effects.high

\* C20: the balancePoints table holds exactly four records with pairwise
\* distinct keys value, direction, exchange, operate, each with all three
\* effect strings (low, high, balanced), and no slider change, Ideal Form or
\* Stress Test action changes the table.
C20_TableShape ==
  /\ Len(balancePoints) = 4
  /\ \A i, j \in 1..Len(balancePoints) :
       i # j => balancePoints[i].key # balancePoints[j].key
  /\ {balancePoints[i].key : i \in 1..Len(balancePoints)} =
       {"value", "direction", "exchange", "operate"}
  /\ \A i \in 1..Len(balancePoints) :
       /\ DOMAIN balancePoints[i].effects = {"low", "high", "balanced"}
       /\ \A b \in {"low", "high", "balanced"} : balancePoints[i].effects[b] # ""

C20_TableFixed == []C20_TableShape /\ [][balancePoints' = balancePoints]_vars

C20_Witness ==
  /\ lastEvent = "stressTest"
  /\ positions = <<SliderMin, SliderMin, 0, SliderMax>>
  /\ Len(balancePoints) = 4
  /\ balancePoints[4].key = "operate"

(***************************************************************************)
(* Change events whose value is not confined to the slider's range.  The   *)
(* onChange handlers pass parseInt(e.target.value, 10) to the setter       *)
(* without a range test; only the <input>'s min and max confine the value. *)
(***************************************************************************)
AnyInputSample == {-250, SliderMin - 1, 0, SliderMax + 1, 250}

AnyInputStrings == {RangeValue(n) : n \in AnyInputSample}

ValueChangeAny == \E s \in AnyInputStrings : ValueChangeWith(s)

DirectionChangeAny == \E s \in AnyInputStrings : DirectionChangeWith(s)

ExchangeChangeAny == \E s \in AnyInputStrings : ExchangeChangeWith(s)

OperateChangeAny == \E s \in AnyInputStrings : OperateChangeWith(s)

NextAnyInput ==
  \/ ValueChangeAny
  \/ DirectionChangeAny
  \/ ExchangeChangeAny
  \/ OperateChangeAny

SpecAnyInput == Init /\ [][NextAnyInput]_vars

\* C21: with field values outside [-50, 50] the integrity score still lies in
\* [0, 100], while the vertex coordinates follow 400 + 2*value, 580 + exchange,
\* 400 + 2*operate and 220 + direction without any clamp.
C21_ScoreClampedVerticesNot ==
  /\ screen.health >= Num(0)
  /\ screen.health <= Num(100)
  /\ screen.topPoint.x = Num(400) + 2 * Num(valuePosition)
  /\ screen.rightPoint.x = Num(580) + Num(exchangePosition)
  /\ screen.bottomPoint.x = Num(400) + 2 * Num(operatePosition)
  /\ screen.leftPoint.x = Num(220) + Num(directionPosition)

\* value = 250 and direction = -250: the unclamped score would be -150, the
\* score shown is 0, and the top and left vertices are off the canvas.
C21_Witness ==
  /\ positions = <<250, -250, 0, SliderMax + 1>>
  /\ Num(100) - Half(Num(SumAbs)) < Num(0)
  /\ screen.health = Num(0)
  /\ screen.topPoint.x > Num(800)
  /\ screen.leftPoint.x < Num(0)

\* C22: after the Stress Test action the state is never the ideal form: at
\* least one field is non-zero and the integrity score is below 100.
C22_StressTestImbalanced ==
  lastEvent = "stressTest" =>
    /\ positions # <<0, 0, 0, 0>>
    /\ screen.health < Num(100)

(***************************************************************************)
(* The slider handlers alone: no button is pressed.                        *)
(***************************************************************************)
NextSliders ==
  \/ ValueChange
  \/ DirectionChange
  \/ ExchangeChange
  \/ OperateChange

SpecSliders == Init /\ [][NextSliders]_vars

\* The value string of every position of the range parses back to that
\* position.
C23_AllPositions ==
  \A n \in SliderMin..SliderMax : ParseInt(RangeValue(n), 10) = n

\* The change events of the sample: a position and the value string the range
\* input delivers for it.
C23_ChangeEvents == {<<n, RangeValue(n)>> : n \in SliderSample}

\* In every state the change of each slider to each position n can happen and
\* sets that slider's field to n with the other three fields kept.
C23_EveryPositionSettable ==
  \A ev \in C23_ChangeEvents :
    /\ ENABLED (/\ ValueChangeWith(ev[2])
                /\ valuePosition' = ev[1]
                /\ UNCHANGED <<directionPosition, exchangePosition, operatePosition>>)
    /\ ENABLED (/\ DirectionChangeWith(ev[2])
                /\ directionPosition' = ev[1]
                /\ UNCHANGED <<valuePosition, exchangePosition, operatePosition>>)
    /\ ENABLED (/\ ExchangeChangeWith(ev[2])
                /\ exchangePosition' = ev[1]
                /\ UNCHANGED <<valuePosition, directionPosition, operatePosition>>)
    /\ ENABLED (/\ OperateChangeWith(ev[2])
                /\ operatePosition' = ev[1]
                /\ UNCHANGED <<valuePosition, directionPosition, exchangePosition>>)

\* No change of a slider to a position n sets that slider's field to anything
\* but n, and none changes another field.
C23_OneFieldPerChange ==
  \A ev \in C23_ChangeEvents :
    /\ ~ENABLED (/\ ValueChangeWith(ev[2])
                 /\ ~(/\ valuePosition' = ev[1]
                      /\ UNCHANGED <<directionPosition, exchangePosition, operatePosition>>))
    /\ ~ENABLED (/\ DirectionChangeWith(ev[2])
                 /\ ~(/\ directionPosition' = ev[1]
                      /\ UNCHANGED <<valuePosition, exchangePosition, operatePosition>>))
    /\ ~ENABLED (/\ ExchangeChangeWith(ev[2])
                 /\ ~(/\ exchangePosition' = ev[1]
                      /\ UNCHANGED <<valuePosition, directionPosition, operatePosition>>))
    /\ ~ENABLED (/\ OperateChangeWith(ev[2])
                 /\ ~(/\ operatePosition' = ev[1]
                      /\ UNCHANGED <<valuePosition, directionPosition, exchangePosition>>))

\* C23: a change of one slider to v sets exactly that slider's field to v and
\* leaves the other three unchanged, and from every state every slider can be
\* set to every position, so slider changes alone reach every 4-tuple.
C23_SlidersIndependent ==
  /\ C23_AllPositions
  /\ C23_EveryPositionSettable
  /\ C23_OneFieldPerChange

\* Four slider changes, one per slider, have produced four different values.
C23_Witness ==
  /\ lastEvent = "change"
  /\ positions = <<SliderMin, 31, -30, 40>>
  /\ rendered = positions

\* The states that differ from the current one in one field, by one.
C24_Neighbours ==
  {[positions EXCEPT ![i] = @ + step] : i \in 1..4, step \in {-1, 1}}

\* C24: changing one field by one within [-50, 50] lowers the integrity score
\* by exactly 0.5 when the field's absolute value grows and raises it by
\* exactly 0.5 when the absolute value shrinks.
C24_HalfPointPerUnit ==
  \A i \in 1..4 : \A t \in C24_Neighbours :
    (/\ t[i] # positions[i]
     /\ t[i] \in SliderMin..SliderMax) =>
      /\ Deviation(t[i]) = Deviation(positions[i]) + 1 =>
           2 * HealthOf(t[1], t[2], t[3], t[4]) = 2 * calculateHealth - Num(1)
      /\ Deviation(t[i]) = Deviation(positions[i]) - 1 =>
           2 * HealthOf(t[1], t[2], t[3], t[4]) = 2 * calculateHealth + Num(1)

\* 101 units of imbalance score 49.5; exchange 1 -> 2 gives 49, 1 -> 0 gives 50.
C24_Witness ==
  /\ positions = <<SliderMax, SliderMin, 1, 0>>
  /\ 2 * calculateHealth = Num(99)
  /\ HealthOf(SliderMax, SliderMin, 2, 0) = Num(49)
  /\ HealthOf(SliderMax, SliderMin, 0, 0) = Num(50)

\* C25: before any user action all four fields are 0, the integrity score is
\* 100, the description is the excellent one, the four effect texts are the
\* 'balanced' texts and the vertices are (400,120), (580,300), (400,480),
\* (220,300).
C25_InitialState ==
  lastEvent = "mount" =>
    /\ positions = <<0, 0, 0, 0>>
    /\ screen.health = Num(100)
    /\ screen.structuralIntegrity = <<"1", "0", "0">>
    /\ screen.healthDescription = HealthExcellent
    /\ screen.valueEffect = valuePoint.effects.balanced
    /\ screen.directionEffect = directionPoint.effects.balanced
    /\ screen.exchangeEffect = exchangePoint.effects.balanced
    /\ screen.operateEffect = operatePoint.effects.balanced
    /\ screen.topPoint = Point(400, 120)
    /\ screen.rightPoint = Point(580, 300)
    /\ screen.bottomPoint = Point(400, 480)
    /\ screen.leftPoint = Point(220, 300)

\* The mounted component, first render done, no event handled yet.
C25_Witness ==
  /\ lastEvent = "mount"
  /\ rendered = <<0, 0, 0, 0>>
  /\ screen.health = Num(100)
  /\ ENABLED ValueChange

\* The point p lies in the rectangle [x0, x1] x [y0, y1], in SVG user units.
C26_Within(p, x0, x1, y0, y1) ==
  /\ Num(x0) <= p.x
  /\ p.x <= Num(x1)
  /\ Num(y0) <= p.y
  /\ p.y <= Num(y1)

\* Every control point depends on two neighbouring vertices only, so the
\* positions <<a, b, a, b>> (value, exchange, operate, direction) run every
\* control point through all the pairs of positions of the range.
C26_AllPositions ==
  \A a, b \in SliderMin..SliderMax :
    LET path == DiamondPathOf(TopPointOf(a), RightPointOf(b),
                              BottomPointOf(a), LeftPointOf(b))
    IN /\ \A i \in 1..5 : C26_Within(path[i].to, 0, 800, 0, 600)
       /\ \A i \in 2..5 : C26_Within(path[i].ctrl, 0, 800, 0, 600)
       /\ C26_Within(path[1].to, 300, 500, 0, 600)
       /\ C26_Within(path[2].to, 530, 630, 275, 325)
       /\ C26_Within(path[3].to, 300, 500, 0, 600)
       /\ C26_Within(path[4].to, 170, 270, 275, 325)

\* C26: in every reachable state the four vertices and the four control points
\* of the dynamic path lie inside the 800x600 canvas; top.x and bottom.x are in
\* [300, 500], right.x in [530, 630], left.x in [170, 270], right.y and left.y
\* in [275, 325].
C26_InsideCanvas ==
  /\ C26_AllPositions
  /\ \A i \in 1..5 : C26_Within(screen.diamondPath[i].to, 0, 800, 0, 600)
  /\ \A i \in 2..5 : C26_Within(screen.diamondPath[i].ctrl, 0, 800, 0, 600)
  /\ C26_Within(screen.topPoint, 300, 500, 0, 600)
  /\ C26_Within(screen.bottomPoint, 300, 500, 0, 600)
  /\ C26_Within(screen.rightPoint, 530, 630, 275, 325)
  /\ C26_Within(screen.leftPoint, 170, 270, 275, 325)

\* All four sliders at an end of the range: every vertex is at an end of its
\* interval.
C26_Witness ==
  /\ positions = <<SliderMax, SliderMin, SliderMax, SliderMin>>
  /\ screen.topPoint = Point(500, 120)
  /\ screen.rightPoint = Point(630, 325)
  /\ screen.bottomPoint = Point(300, 480)
  /\ screen.leftPoint = Point(170, 275)
  /\ screen.diamondPath[2].ctrl.x = Num(515)

\* C27: in every reachable state 100 - (|value| + |direction| + |exchange| +
\* |operate|)/2 is at least 0 before the clamp, so Math.max(0, ..) returns it
\* as it is.
C27_ClampNeverActs ==
  LET balanceScore == Num(100) - Half(Num(SumAbs))
  IN /\ balanceScore >= Num(0)
     /\ calculateHealth = balanceScore
     /\ screen.health = balanceScore

\* All four sliders at an end of the range: the value before the clamp is
\* exactly 0, the least it gets.
C27_Witness ==
  /\ positions = <<SliderMax, SliderMin, SliderMin, SliderMax>>
  /\ Num(100) - Half(Num(SumAbs)) = Num(0)
  /\ calculateHealth = Num(0)

\* The number of fields whose effect text on screen is not the 'balanced' one.
C28_OutsideBalanced ==
  Cardinality({i \in 1..4 :
    <<screen.valueEffect, screen.directionEffect,
      screen.exchangeEffect, screen.operateEffect>>[i]
      # balancePoints[i].effects.balanced})

\* C28: if the health tier is excellent (score >= 80) at most one field is
\* outside the 'balanced' band; if all four fields are in the 'balanced' band
\* the score is at least 40 and the tier is neither significant nor critical;
\* if the tier is critical (score < 20) at least three fields are outside the
\* 'balanced' band.
C28_BandsAgreeWithTier ==
  /\ (screen.health >= Num(80) \/ screen.healthDescription = HealthExcellent)
       => C28_OutsideBalanced <= 1
  /\ C28_OutsideBalanced = 0 =>
       /\ screen.health >= Num(40)
       /\ screen.healthDescription \notin {HealthSignificant, HealthCritical}
  /\ (screen.health < Num(20) \/ screen.healthDescription = HealthCritical)
       => C28_OutsideBalanced >= 3

\* Score 19.5, critical, with exactly three fields outside the band.
C28_Witness ==
  /\ positions = <<SliderMax, SliderMin, 31, 30>>
  /\ screen.healthDescription = HealthCritical
  /\ C28_OutsideBalanced = 3

(***************************************************************************)
(* The button handlers setter call by setter call.  `positions` holds the  *)
(* hook values with the updates queued so far applied, `rendered` the      *)
(* values the last run of the component function saw, and lastEvent        *)
(* records how far the running handler has come ("idealForm:2": two setter *)
(* calls made).  The handlers are React onClick handlers: React runs the   *)
(* component function once, when the handler has returned.                 *)
(***************************************************************************)
HandlerIdle == lastEvent \in {"mount", "change", "idealForm", "stressTest"}

\* The positions the sliders are driven to between button presses.
SetterSample == {SliderMin, 0, 31}

SetterStrings == {RangeValue(n) : n \in SetterSample}

\* Mutant of QueueUpdate: the component function runs at each setter call.
QueueUpdateUnbatched == Rerender

\* A setter call inside an onClick handler queues the update; the screen is
\* left as it is until the handler returns.
QueueUpdate == UNCHANGED rendered

ValueChangeIdle == HandlerIdle /\ \E s \in SetterStrings : ValueChangeWith(s)

DirectionChangeIdle == HandlerIdle /\ \E s \in SetterStrings : DirectionChangeWith(s)

ExchangeChangeIdle == HandlerIdle /\ \E s \in SetterStrings : ExchangeChangeWith(s)

OperateChangeIdle == HandlerIdle /\ \E s \in SetterStrings : OperateChangeWith(s)

IdealFormSetValue ==
  /\ HandlerIdle
  /\ valuePosition' = 0
  /\ UNCHANGED <<directionPosition, exchangePosition, operatePosition>>
  /\ lastEvent' = "idealForm:1"
  /\ QueueUpdate

IdealFormSetDirection ==
  /\ lastEvent = "idealForm:1"
  /\ directionPosition' = 0
  /\ UNCHANGED <<valuePosition, exchangePosition, operatePosition>>
  /\ lastEvent' = "idealForm:2"
  /\ QueueUpdate

IdealFormSetExchange ==
  /\ lastEvent = "idealForm:2"
  /\ exchangePosition' = 0
  /\ UNCHANGED <<valuePosition, directionPosition, operatePosition>>
  /\ lastEvent' = "idealForm:3"
  /\ QueueUpdate

IdealFormSetOperate ==
  /\ lastEvent = "idealForm:3"
  /\ operatePosition' = 0
  /\ UNCHANGED <<valuePosition, directionPosition, exchangePosition>>
  /\ lastEvent' = "idealForm:4"
  /\ QueueUpdate

\* The IdealForm handler returns: the queued updates are rendered together.
IdealFormReturn ==
  /\ lastEvent = "idealForm:4"
  /\ UNCHANGED <<valuePosition, directionPosition, exchangePosition, operatePosition>>
  /\ lastEvent' = "idealForm"
  /\ Rerender

StressTestSetValue ==
  /\ HandlerIdle
  /\ \E k \in RandomSample : valuePosition' = RandomPosition(k)
  /\ UNCHANGED <<directionPosition, exchangePosition, operatePosition>>
  /\ lastEvent' = "stressTest:1"
  /\ QueueUpdate

StressTestSetDirection ==
  /\ lastEvent = "stressTest:1"
  /\ \E k \in RandomSample : directionPosition' = RandomPosition(k)
  /\ UNCHANGED <<valuePosition, exchangePosition, operatePosition>>
  /\ lastEvent' = "stressTest:2"
  /\ QueueUpdate

StressTestSetExchange ==
  /\ lastEvent = "stressTest:2"
  /\ \E k \in RandomSample : exchangePosition' = RandomPosition(k)
  /\ UNCHANGED <<valuePosition, directionPosition, operatePosition>>
  /\ lastEvent' = "stressTest:3"
  /\ QueueUpdate

StressTestSetOperate ==
  /\ lastEvent = "stressTest:3"
  /\ \E k \in RandomSample : operatePosition' = RandomPosition(k)
  /\ UNCHANGED <<valuePosition, directionPosition, exchangePosition>>
  /\ lastEvent' = "stressTest:4"
  /\ QueueUpdate

\* The StressTest handler returns: the queued updates are rendered together.
StressTestReturn ==
  /\ lastEvent = "stressTest:4"
  /\ UNCHANGED <<valuePosition, directionPosition, exchangePosition, operatePosition>>
  /\ lastEvent' = "stressTest"
  /\ Rerender

NextSetters ==
  \/ ValueChangeIdle
  \/ DirectionChangeIdle
  \/ ExchangeChangeIdle
  \/ OperateChangeIdle
  \/ IdealFormSetValue
  \/ IdealFormSetDirection
  \/ IdealFormSetExchange
  \/ IdealFormSetOperate
  \/ IdealFormReturn
  \/ StressTestSetValue
  \/ StressTestSetDirection
  \/ StressTestSetExchange
  \/ StressTestSetOperate
  \/ StressTestReturn

SpecSetters == Init /\ [][NextSetters]_vars

\* Between events the screen shows the hook values.
C29_ScreenCompleteWhenIdle == HandlerIdle => rendered = positions

\* A step that changes what the screen shows ends a handler and shows all
\* four hook values as they are after the handler's last setter call.
C29_RenderOnlyAtReturn ==
  rendered' # rendered => (HandlerIdle' /\ rendered' = positions')

\* C29: Ideal Form and Stress Test make four setter calls each, yet no render
\* shows a state in which only some of the four fields have their new values:
\* the screen keeps the values of before the handler until the handler has
\* returned and then shows all four new ones.
C29_ButtonsAtomic ==
  /\ []C29_ScreenCompleteWhenIdle
  /\ [][C29_RenderOnlyAtReturn]_vars

\* Ideal Form has made two of its setter calls: value and direction are 0
\* already, exchange and operate are not, and the screen still shows the four
\* old values.
C29_Witness ==
  /\ lastEvent = "idealForm:2"
  /\ positions = <<0, 0, 31, SliderMin>>
  /\ rendered = <<31, SliderMin, 31, SliderMin>>

\* The rearrangements of the current field values among the four fields.
C30_Permuted ==
  {[i \in 1..4 |-> positions[f[i]]] : f \in Permutations(1..4)}

\* The current state with one field negated.
C30_Negated ==
  {[positions EXCEPT ![i] = -@] : i \in 1..4}

\* C30: negating any field or permuting the values among the four fields
\* leaves the integrity score, and so the health description, unchanged.
C30_ScoreSymmetric ==
  \A t \in C30_Permuted \cup C30_Negated :
    /\ HealthOf(t[1], t[2], t[3], t[4]) = calculateHealth
    /\ HealthDescriptionOf(HealthOf(t[1], t[2], t[3], t[4])) = getHealthDescription

\* Four different values of both signs: 24 distinct rearrangements, all with
\* score 24.5 and the significant description.
C30_Witness ==
  /\ positions = <<SliderMin, 31, -30, 40>>
  /\ Cardinality(C30_Permuted) = 24
  /\ calculateHealth = Num(24) + 2
  /\ HealthOf(40, -30, 31, SliderMax) = calculateHealth

====
